---- MODULE Spec2Model ----
(***************************************************************************)
(* A model of the ray tracer gfngfn/try-ray-tracing: the ray-sphere        *)
(* intersection (Sphere::hit), the nearest-hit search of a scene           *)
(* (HittableList::hit), the Glass material (Glass::scatter), the recursive *)
(* integrator (ray_color), the render loop of main, reflect_vector,        *)
(* Color::average and the Camera.                                          *)
(*                                                                         *)
(* f64 values are modelled as exact rationals <<numerator, denominator>>.  *)
(* The inputs the specifications draw are chosen so that every square root *)
(* the code takes is the square root of a rational square, so the          *)
(* arithmetic of the model is the arithmetic of the code without rounding. *)
(***************************************************************************)
EXTENDS Integers, Sequences, FiniteSets, TLC

VARIABLES
    \* HittableList::hit and Sphere::hit
    world,          \* HittableList.members: a sequence of spheres
    ray,            \* the ray handed to hit
    idx,            \* position of the `for hittable in members` loop
    maybe_nearest,  \* the local `maybe_nearest` of HittableList::hit
    pair,           \* what the last member's hit returned
    hit_result,     \* what HittableList::hit returned
    hpc,            \* control position of HittableList::hit
    \* ray_color
    stack,          \* the activations of ray_color: [ray, diffusion_depth,
                    \* attenuation], the innermost one last
    ret,            \* the Color the last finished activation returned
    cpc,            \* "idle", "call" (the innermost activation starts),
                    \* "return" (its callee has returned), "done"
    depth0,         \* diffusion_depth of the outermost activation
    hit_queries,    \* calls of world.hit since the outermost call
    scatter_calls,  \* calls of material.scatter since the outermost call
    path,           \* the attenuations scatter returned, in call order
    leaf,           \* how the path ended: the ray that missed, or black
    \* Glass::scatter
    glass,          \* the Glass: [eta, albedo]
    ray_in,         \* the incoming ray
    hit,            \* the HitRecord: [t, surface_normal]
    rnd,            \* what random_double() returns in this call
    scattered,      \* what scatter returned: [attenuation, ray]
    gpc,            \* "idle", "call", "scattered"
    \* main: the render loop
    out,            \* standard output: the header lines, then one entry per
                    \* Color::write, tagged with the pixel (i, j) it is for
    j,              \* the scan line, `for j in (0..image_height).rev()`
    i,              \* the column, `for i in 0..image_width`
    sample,         \* turns of `for _ in 0..num_samples_per_pixel` done
    colors,         \* the Vec<Color> of the pixel's sample colors
    written,        \* the gamma-corrected Color handed to write, until
                    \* the next pixel is begun
    uv,             \* the screen coordinates <<u, v>> of the sample being
                    \* set up, until its ray is handed to ray_color
    rpc,            \* control position of main
    \* reflect_vector
    refl_in,        \* the incoming unit direction
    refl_normal,    \* the unit normal
    reflected,      \* what reflect_vector returned last
    fpc,            \* "idle", "call", "once", "twice"
    \* Color::average
    avg_colors,     \* the Vec<Color> handed to average
    averaged,       \* what average returned
    apc,            \* "idle", "call", "averaged"
    \* Camera
    cam,            \* the Camera
    screen,         \* the screen coordinates <<s, t>> handed to get_ray
    cam_ray,        \* what get_ray returned
    kpc             \* "idle", "call", "returned"

hitVars == <<world, ray, idx, maybe_nearest, pair, hit_result, hpc>>

colorVars == <<stack, ret, cpc, depth0, hit_queries, scatter_calls, path, leaf>>

glassVars == <<glass, ray_in, hit, rnd, scattered, gpc>>

renderVars == <<out, j, i, sample, colors, written, uv, rpc>>

reflectVars == <<refl_in, refl_normal, reflected, fpc>>

averageVars == <<avg_colors, averaged, apc>>

cameraVars == <<cam, screen, cam_ray, kpc>>

vars == <<hitVars, colorVars, glassVars, renderVars,
          reflectVars, averageVars, cameraVars>>

----------------------------------------------------------------------------
(* f64 as exact rationals                                                  *)

Abs(a) == IF a < 0 THEN -a ELSE a

RECURSIVE GCD(_, _)
GCD(a, b) == IF b = 0 THEN a ELSE GCD(b, a % b)

\* A non-finite f64 (NaN, +-inf): what x / 0. yields.
NonFinite == <<0, 0>>

\* The rational n/d in lowest terms with a positive denominator.
Q(n, d) ==
    IF d = 0 THEN NonFinite
    ELSE LET s == IF d < 0 THEN -1 ELSE 1
             g == GCD(Abs(n), Abs(d))
         IN  <<(s * n) \div g, (s * d) \div g>>

IsFinite(a) == a[2] # 0

Zero == <<0, 1>>
One == <<1, 1>>
Half == <<1, 2>>

\* Sums and comparisons go through the least common denominator, which
\* keeps the intermediate integers small.
RAdd(a, b) ==
    IF ~IsFinite(a) \/ ~IsFinite(b) THEN NonFinite
    ELSE LET g == GCD(a[2], b[2])
         IN  Q(a[1] * (b[2] \div g) + b[1] * (a[2] \div g), a[2] * (b[2] \div g))
RNeg(a) == <<-a[1], a[2]>>
RSub(a, b) == RAdd(a, RNeg(b))
RMul(a, b) ==
    IF ~IsFinite(a) \/ ~IsFinite(b) THEN NonFinite
    ELSE LET g1 == GCD(Abs(a[1]), b[2])
             g2 == GCD(Abs(b[1]), a[2])
         IN  Q((a[1] \div g1) * (b[1] \div g2), (a[2] \div g2) * (b[2] \div g1))
RDiv(a, b) ==
    IF ~IsFinite(b) \/ b[1] = 0 THEN NonFinite
    ELSE RMul(a, IF b[1] < 0 THEN <<-b[2], -b[1]>> ELSE <<b[2], b[1]>>)

\* Comparisons are false on a non-finite operand, as they are on NaN.
RLt(a, b) ==
    /\ IsFinite(a) /\ IsFinite(b)
    /\ LET g == GCD(a[2], b[2]) IN a[1] * (b[2] \div g) < b[1] * (a[2] \div g)
RLe(a, b) ==
    /\ IsFinite(a) /\ IsFinite(b)
    /\ LET g == GCD(a[2], b[2]) IN a[1] * (b[2] \div g) <= b[1] * (a[2] \div g)
RGt(a, b) == RLt(b, a)
RGe(a, b) == RLe(b, a)

\* The largest r with r * r <= n.
ISqrt(n) == CHOOSE r \in 0..n : r * r <= n /\ (r + 1) * (r + 1) > n

IsSquare(a) == /\ IsFinite(a)
               /\ a[1] >= 0
               /\ ISqrt(a[1]) * ISqrt(a[1]) = a[1]
               /\ ISqrt(a[2]) * ISqrt(a[2]) = a[2]

\* f64::sqrt; exact on the rational squares, NaN on a negative number.
RSqrt(a) ==
    IF ~IsFinite(a) \/ a[1] < 0 THEN NonFinite
    ELSE Q(ISqrt(a[1]), ISqrt(a[2]))

RECURSIVE RPowi(_, _)
RPowi(a, n) == IF n = 0 THEN One ELSE RMul(a, RPowi(a, n - 1))

----------------------------------------------------------------------------
(* geometry.rs: Vec3, UnitVec3, Point3, Ray. A vector and a point are a    *)
(* triple <<x, y, z>> of rationals.                                        *)

Vec3(x, y, z) == <<x, y, z>>

Add(u, v) == <<RAdd(u[1], v[1]), RAdd(u[2], v[2]), RAdd(u[3], v[3])>>

Subtract(u, v) == <<RSub(u[1], v[1]), RSub(u[2], v[2]), RSub(u[3], v[3])>>

Scale(u, ratio) == <<RMul(u[1], ratio), RMul(u[2], ratio), RMul(u[3], ratio)>>

Divide(u, d) == <<RDiv(u[1], d), RDiv(u[2], d), RDiv(u[3], d)>>

LengthSquared(u) ==
    RAdd(RAdd(RMul(u[1], u[1]), RMul(u[2], u[2])), RMul(u[3], u[3]))

Length(u) == RSqrt(LengthSquared(u))

InnerProduct(u, v) ==
    RAdd(RAdd(RMul(u[1], v[1]), RMul(u[2], v[2])), RMul(u[3], v[3]))

\* UnitVec3::new: v / |v|, non-finite on the zero vector.
UnitVector(v) == Divide(v, Length(v))

\* Point3::add and Point3::subtract
PointAdd(p, v) == Add(p, v)
PointSubtract(p, q) == Subtract(p, q)

\* Ray::at
RayAt(r, t) == PointAdd(r.origin, Scale(r.direction, t))

\* A plausible slip: the factor 2 left out, which projects onto the surface.
ReflectVectorProjected(u_in, u_normal) ==
    UnitVector(Add(u_in,
        Scale(u_normal, RMul(Q(-1, 1), InnerProduct(u_in, u_normal)))))

\* reflect_vector
ReflectVector(u_in, u_normal) ==
    UnitVector(Add(u_in,
        Scale(u_normal, RMul(Q(-2, 1), InnerProduct(u_in, u_normal)))))

\* Option<T>
None == <<>>
Some(x) == <<x>>

----------------------------------------------------------------------------
(* hittable_object.rs: Sphere::hit                                         *)

\* let t_min = 0.01
t_min == Q(1, 100)

\* The quadratic of |O + t d - C|^2 = r^2: v = O - C, b_half = v.d,
\* c = |v|^2 - r^2, discriminant_quarter = b_half^2 - c.
BHalf(sphere, r) == InnerProduct(PointSubtract(r.origin, sphere.center), r.direction)

CCoeff(sphere, r) ==
    RSub(LengthSquared(PointSubtract(r.origin, sphere.center)),
         RMul(sphere.radius, sphere.radius))

DiscriminantQuarter(sphere, r) ==
    RSub(RMul(BHalf(sphere, r), BHalf(sphere, r)), CCoeff(sphere, r))

\* A plausible slip: the tangent ray excluded (discriminant_quarter <= 0.).
TOptTangentExcluded(b_half, discriminant_quarter) ==
    IF RLe(discriminant_quarter, Zero) THEN None
    ELSE LET sqrt_of_discriminant_quarter == RSqrt(discriminant_quarter)
             t_minus == RSub(RNeg(b_half), sqrt_of_discriminant_quarter)
             t_plus == RAdd(RNeg(b_half), sqrt_of_discriminant_quarter)
         IN  IF RGe(t_minus, t_min) THEN Some(t_minus)
             ELSE IF RGe(t_plus, t_min) THEN Some(t_plus)
             ELSE None

\* A plausible slip: the near root accepted without the t_min test.
TOptNoEpsilon(b_half, discriminant_quarter) ==
    IF RLt(discriminant_quarter, Zero) THEN None
    ELSE LET sqrt_of_discriminant_quarter == RSqrt(discriminant_quarter)
             t_minus == RSub(RNeg(b_half), sqrt_of_discriminant_quarter)
             t_plus == RAdd(RNeg(b_half), sqrt_of_discriminant_quarter)
         IN  IF RGe(t_minus, Zero) THEN Some(t_minus)
             ELSE IF RGe(t_plus, t_min) THEN Some(t_plus)
             ELSE None

\* let t_opt = { ... }
TOpt(b_half, discriminant_quarter) ==
    IF RLt(discriminant_quarter, Zero) THEN None
    ELSE LET sqrt_of_discriminant_quarter == RSqrt(discriminant_quarter)
             t_minus == RSub(RNeg(b_half), sqrt_of_discriminant_quarter)
         IN  IF RGe(t_minus, t_min) THEN Some(t_minus)
             ELSE LET t_plus == RAdd(RNeg(b_half), sqrt_of_discriminant_quarter)
                  IN  IF RGe(t_plus, t_min) THEN Some(t_plus) ELSE None

\* A plausible slip: the normal turned against the ray (the front-face
\* convention of other ray tracers).
SurfaceNormalFacing(r, t, center) ==
    LET n == UnitVector(PointSubtract(RayAt(r, t), center))
    IN  IF RGt(InnerProduct(n, r.direction), Zero) THEN Scale(n, Q(-1, 1)) ELSE n

\* intersection_point.subtract(&center).unit_vector()
SurfaceNormal(r, t, center) == UnitVector(PointSubtract(RayAt(r, t), center))

\* Sphere::hit: None, or Some of the pair (HitRecord, material).
SphereHit(sphere, r) ==
    LET t_opt == TOpt(BHalf(sphere, r), DiscriminantQuarter(sphere, r))
    IN  IF t_opt = None THEN None
        ELSE Some([hit |-> [t |-> t_opt[1],
                            surface_normal |->
                                SurfaceNormal(r, t_opt[1], sphere.center)],
                   material |-> sphere.material])

----------------------------------------------------------------------------
(* hittable_object.rs: HittableList::hit, one member per step              *)

\* A plausible slip: every later hit replaces the nearest one.
KeepNearestLast(found, nearest) ==
    IF found = None THEN nearest ELSE found

\* The body of `if let Some(pair) = hittable.hit(ray)`.
KeepNearest(found, nearest) ==
    IF found = None THEN nearest
    ELSE IF nearest # None
         THEN IF RLt(found[1].hit.t, nearest[1].hit.t) THEN found ELSE nearest
         ELSE found

MaxMembers == 2

Int3(x, y, z) == <<Q(x, 1), Q(y, 1), Q(z, 1)>>

MkRay(o, d) == [origin |-> o, direction |-> UnitVector(d)]

MkSphere(c, radius, m) == [center |-> c, radius |-> radius, material |-> m]

Rays == {
    MkRay(Int3(0, 0, 0), Int3(0, 0, -1)),
    MkRay(Int3(0, 0, 0), <<Q(-6, 10), Zero, Q(-8, 10)>>),
    MkRay(Int3(0, 0, 0), Int3(0, 0, 1)),
    MkRay(Int3(0, 0, 1), Int3(0, 0, -2)) }

Spheres == {
    MkSphere(Int3(0, 0, -3), Q(1, 1), "test1"),
    MkSphere(Int3(0, 0, -8), Q(5, 1), "test2"),
    MkSphere(Int3(0, 0, 0), Q(5, 1), "test3"),
    MkSphere(Int3(0, 0, -1), Q(1, 2), "A"),
    MkSphere(Int3(0, 0, -4), Q(2, 1), "tie"),
    MkSphere(Int3(5, 0, -3), Q(5, 1), "tangent"),
    MkSphere(Int3(5, 0, 3), Q(5, 1), "tangent_behind"),
    MkSphere(Int3(0, 7, -3), Q(1, 1), "miss"),
    MkSphere(<<Zero, Zero, Q(199, 200)>>, Q(1, 1), "skin"),
    MkSphere(Int3(0, 0, -1), Q(1, 1), "surface"),
    MkSphere(Int3(3, 0, -6), Q(5, 1), "offset") }

\* The spheres whose quadratic for r has a rational square root (or none).
ExactSpheres(r) ==
    {s \in Spheres : \/ RLt(DiscriminantQuarter(s, r), Zero)
                     \/ IsSquare(DiscriminantQuarter(s, r))}

\* ray_color is not running.
ColorIdle ==
    /\ stack = <<>>
    /\ ret = None
    /\ cpc = "idle"
    /\ depth0 = 0
    /\ hit_queries = 0
    /\ scatter_calls = 0
    /\ path = <<>>
    /\ leaf = None

\* Glass::scatter is not running.
GlassIdle ==
    /\ glass = None
    /\ ray_in = None
    /\ hit = None
    /\ rnd = Zero
    /\ scattered = None
    /\ gpc = "idle"

\* main is not running.
RenderIdle ==
    /\ out = <<>>
    /\ j = 0
    /\ i = 0
    /\ sample = 0
    /\ colors = <<>>
    /\ written = None
    /\ uv = None
    /\ rpc = "idle"

\* reflect_vector is not running.
ReflectIdle ==
    /\ refl_in = None
    /\ refl_normal = None
    /\ reflected = None
    /\ fpc = "idle"

\* Color::average is not running.
AverageIdle ==
    /\ avg_colors = <<>>
    /\ averaged = None
    /\ apc = "idle"

\* Camera::get_ray is not running.
CameraIdle ==
    /\ cam = None
    /\ screen = None
    /\ cam_ray = None
    /\ kpc = "idle"

HitInit ==
    /\ ray \in Rays
    /\ world \in UNION {[1..n -> ExactSpheres(ray)] : n \in 0..MaxMembers}
    /\ idx = 1
    /\ maybe_nearest = None
    /\ pair = None
    /\ hit_result = None
    /\ hpc = "loop"
    /\ ColorIdle
    /\ GlassIdle
    /\ RenderIdle
    /\ ReflectIdle
    /\ AverageIdle
    /\ CameraIdle

\* One turn of `for hittable in self.members.iter()`.
HitMember ==
    /\ hpc = "loop"
    /\ idx <= Len(world)
    /\ pair' = SphereHit(world[idx], ray)
    /\ maybe_nearest' = KeepNearest(pair', maybe_nearest)
    /\ idx' = idx + 1
    /\ UNCHANGED <<world, ray, hit_result, hpc>>
    /\ UNCHANGED <<colorVars, glassVars, renderVars,
                 reflectVars, averageVars, cameraVars>>

\* The loop is over: `maybe_nearest` is returned.
HitReturn ==
    /\ hpc = "loop"
    /\ idx > Len(world)
    /\ hit_result' = maybe_nearest
    /\ hpc' = "returned"
    /\ UNCHANGED <<world, ray, idx, maybe_nearest, pair>>
    /\ UNCHANGED <<colorVars, glassVars, renderVars,
                 reflectVars, averageVars, cameraVars>>

HitNext == HitMember \/ HitReturn

SpecHit == HitInit /\ [][HitNext]_vars

----------------------------------------------------------------------------
(* Claims about HittableList::hit and Sphere::hit, under SpecHit           *)

\* A member has been tested: `Member` is the sphere, `pair` what it returned.
Tested == hpc = "loop" /\ idx > 1
Member == world[idx - 1]

\* The hits the members report for the ray.
MemberHits == {SphereHit(world[k], ray) : k \in 1..Len(world)} \ {None}

\* C1: HittableList.hit returns the hit whose t is the minimum over all the
\* members that report a hit for the ray, and None if and only if no member
\* reports a hit.
C1_NearestHit ==
    hpc = "returned" =>
        /\ hit_result = None <=> MemberHits = {}
        /\ hit_result # None =>
            /\ hit_result \in MemberHits
            /\ \A h \in MemberHits : RLe(hit_result[1].hit.t, h[1].hit.t)

\* Two members hit, the second one nearer: the nearest is replaced.
C1_Witness ==
    /\ hpc = "returned"
    /\ Len(world) = 2
    /\ SphereHit(world[1], ray) # None
    /\ SphereHit(world[2], ray) # None
    /\ RLt(SphereHit(world[2], ray)[1].hit.t, SphereHit(world[1], ray)[1].hit.t)
    /\ hit_result = SphereHit(world[2], ray)

\* The roots of the member's quadratic, and those of them that are >= t_min.
MemberRoots ==
    LET b == BHalf(Member, ray)
        d == DiscriminantQuarter(Member, ray)
    IN  IF RLt(d, Zero) THEN {}
        ELSE {RSub(RNeg(b), RSqrt(d)), RAdd(RNeg(b), RSqrt(d))}

MemberFarRoot ==
    RAdd(RNeg(BHalf(Member, ray)), RSqrt(DiscriminantQuarter(Member, ray)))

OriginInside ==
    RLt(LengthSquared(PointSubtract(ray.origin, Member.center)),
        RMul(Member.radius, Member.radius))

\* C2: Sphere.hit reports the smallest root of the ray-sphere quadratic that
\* is >= t_min, and no hit when there is none; the reported point lies on
\* the sphere, every reported t is >= t_min, and a ray whose origin lies
\* inside the sphere is reported at the far root.
C2_SmallestRootFromTMin ==
    Tested =>
        LET ok == {t \in MemberRoots : RGe(t, t_min)}
        IN  /\ pair = None <=> ok = {}
            /\ pair # None =>
                /\ pair[1].hit.t \in ok
                /\ \A t \in ok : RLe(pair[1].hit.t, t)
                /\ RGe(pair[1].hit.t, t_min)
                /\ LengthSquared(PointSubtract(RayAt(ray, pair[1].hit.t),
                                               Member.center))
                       = RMul(Member.radius, Member.radius)
                /\ OriginInside => pair[1].hit.t = MemberFarRoot

\* A ray from inside the sphere, reported at the far root.
C2_Witness ==
    /\ Tested
    /\ OriginInside
    /\ pair # None
    /\ pair[1].hit.t = MemberFarRoot
    /\ \E t \in MemberRoots : RLt(t, t_min)

\* C3, as stated: a ray exactly tangent to a sphere (discriminant_quarter
\* equal to zero) is a non-hit, Sphere.hit returns None for it.
C3_TangentIsNoHit ==
    (Tested /\ DiscriminantQuarter(Member, ray) = Zero) => pair = None

\* C3, amended: a ray exactly tangent to a sphere is a hit at the double root
\* t = -b_half when that is >= t_min, and a non-hit only when the double root
\* is below t_min; the discriminant excludes a ray only when it is negative.
C3_TangentIsHit ==
    Tested =>
        /\ DiscriminantQuarter(Member, ray) = Zero =>
            IF RGe(RNeg(BHalf(Member, ray)), t_min)
            THEN pair # None /\ pair[1].hit.t = RNeg(BHalf(Member, ray))
            ELSE pair = None
        /\ RLt(DiscriminantQuarter(Member, ray), Zero) => pair = None

\* A tangent ray that is reported as a hit.
C3_Witness ==
    /\ Tested
    /\ DiscriminantQuarter(Member, ray) = Zero
    /\ pair # None

\* The ray starts outside the sphere and points at its center.
AimedAtCenter ==
    LET v == PointSubtract(ray.origin, Member.center)
    IN  /\ RGt(LengthSquared(v), RMul(Member.radius, Member.radius))
        /\ IsSquare(LengthSquared(v))
        /\ Scale(ray.direction, Length(v)) = Scale(v, Q(-1, 1))

\* C4: for every hit Sphere.hit reports, the surface normal is the unit
\* vector from the center to the hit point ray.at(t), never flipped; a ray
\* from outside aimed at the center hits at t = distance(origin, center) - r
\* with the normal pointing back along the ray.
C4_OutwardUnitNormal ==
    (Tested /\ pair # None) =>
        LET n == pair[1].hit.surface_normal
            t == pair[1].hit.t
        IN  /\ LengthSquared(n) = One
            /\ Scale(n, Member.radius)
                   = PointSubtract(RayAt(ray, t), Member.center)
            /\ AimedAtCenter =>
                /\ t = RSub(Length(PointSubtract(ray.origin, Member.center)),
                            Member.radius)
                /\ n = Scale(ray.direction, Q(-1, 1))

\* A hit from inside: the normal points along the ray, not against it.
C4_Witness ==
    /\ Tested
    /\ pair # None
    /\ OriginInside
    /\ RGt(InnerProduct(pair[1].hit.surface_normal, ray.direction), Zero)

\* A hit from outside by a ray aimed at the center (tests::sphere_test1).
C4_WitnessAimed == Tested /\ pair # None /\ AimedAtCenter

\* Every square root taken for a tested member is exact.
HitSqrtExact ==
    Tested =>
        /\ \/ RLt(DiscriminantQuarter(Member, ray), Zero)
           \/ IsSquare(DiscriminantQuarter(Member, ray))
        /\ pair # None =>
            IsSquare(LengthSquared(PointSubtract(RayAt(ray, pair[1].hit.t),
                                                 Member.center)))

----------------------------------------------------------------------------
(* color.rs: Color and Attenuation, records [r, g, b] of rationals         *)

Color(r, g, b) == [r |-> r, g |-> g, b |-> b]

Black == Color(Zero, Zero, Zero)
White == Color(One, One, One)
Sky == Color(Q(5, 10), Q(7, 10), One)

\* Color::blend
Blend(self, t, other) ==
    [r |-> RAdd(RMul(RSub(One, t), self.r), RMul(t, other.r)),
     g |-> RAdd(RMul(RSub(One, t), self.g), RMul(t, other.g)),
     b |-> RAdd(RMul(RSub(One, t), self.b), RMul(t, other.b))]

\* A plausible slip: one channel left unattenuated.
AttenuateRedGreen(color, attenuation) ==
    [r |-> RMul(color.r, attenuation.r),
     g |-> RMul(color.g, attenuation.g),
     b |-> color.b]

\* Color::attenuate
Attenuate(color, attenuation) ==
    [r |-> RMul(color.r, attenuation.r),
     g |-> RMul(color.g, attenuation.g),
     b |-> RMul(color.b, attenuation.b)]

----------------------------------------------------------------------------
(* main.rs: ray_color, one activation step per action. `world` is a        *)
(* &dyn Hittable and the material a Box<dyn Material>: what hit and        *)
(* scatter return is drawn from the outcomes any implementation can give.  *)

\* ray_background_color
RayBackgroundColor(r) ==
    LET t == RMul(Half, RAdd(r.direction[2], One))
    IN  Blend(White, t, Sky)

\* A plausible slip: the recursion stops one bounce late.
DepthExhaustedLate(diffusion_depth) == diffusion_depth < 0

\* if diffusion_depth <= 0
DepthExhausted(diffusion_depth) == diffusion_depth <= 0

\* A plausible slip: the bounce is not counted.
ChildDepthSame(diffusion_depth) == diffusion_depth

\* ray_color(&child_ray, world, diffusion_depth - 1)
ChildDepth(diffusion_depth) == diffusion_depth - 1

MaxDepth == 3

\* The rays of the model: the primary rays and the scattered ones.
SceneRays == {
    MkRay(Int3(0, 0, 0), Int3(0, 0, -1)),
    MkRay(Int3(0, 2, -1), <<Q(3, 1), Q(-4, 1), Zero>>) }

\* The albedos of carbon and hydrogen.
Attenuations == { Color(Q(5, 10), Q(5, 10), Q(5, 10)),
                  Color(Q(8, 10), Q(8, 10), Q(9, 10)) }

Frame(r, diffusion_depth) ==
    [ray |-> r, diffusion_depth |-> diffusion_depth, attenuation |-> None]

Top == stack[Len(stack)]

Pop(st) == SubSeq(st, 1, Len(st) - 1)

\* Where control goes when the innermost activation returns.
AfterReturn == IF Len(stack) = 1 THEN "done" ELSE "return"

\* HittableList::hit is not running.
HitIdle ==
    /\ world = <<>>
    /\ ray = None
    /\ idx = 0
    /\ maybe_nearest = None
    /\ pair = None
    /\ hit_result = None
    /\ hpc = "idle"

\* The call ray_color(ray, world, diffusion_depth).
CallRayColor(r, diffusion_depth) ==
    /\ stack' = <<Frame(r, diffusion_depth)>>
    /\ ret' = None
    /\ cpc' = "call"
    /\ depth0' = diffusion_depth
    /\ hit_queries' = 0
    /\ scatter_calls' = 0
    /\ path' = <<>>
    /\ leaf' = None

ColorInit ==
    /\ HitIdle
    /\ ReflectIdle
    /\ AverageIdle
    /\ CameraIdle
    /\ GlassIdle
    /\ RenderIdle
    /\ \E r \in SceneRays, d \in -1..MaxDepth :
        /\ stack = <<Frame(r, d)>>
        /\ depth0 = d
    /\ ret = None
    /\ cpc = "call"
    /\ hit_queries = 0
    /\ scatter_calls = 0
    /\ path = <<>>
    /\ leaf = None

\* diffusion_depth <= 0: black, and nothing else is done.
RayColorBlack ==
    /\ cpc = "call"
    /\ DepthExhausted(Top.diffusion_depth)
    /\ ret' = Some(Black)
    /\ stack' = Pop(stack)
    /\ cpc' = AfterReturn
    /\ leaf' = Some([kind |-> "black", ray |-> Top.ray])
    /\ UNCHANGED <<depth0, hit_queries, scatter_calls, path>>
    /\ UNCHANGED <<hitVars, glassVars, renderVars,
                 reflectVars, averageVars, cameraVars>>

\* world.hit(ray) is None: the background of the ray.
RayColorMiss ==
    /\ cpc = "call"
    /\ ~DepthExhausted(Top.diffusion_depth)
    /\ hit_queries' = hit_queries + 1
    /\ ret' = Some(RayBackgroundColor(Top.ray))
    /\ stack' = Pop(stack)
    /\ cpc' = AfterReturn
    /\ leaf' = Some([kind |-> "miss", ray |-> Top.ray])
    /\ UNCHANGED <<depth0, scatter_calls, path>>
    /\ UNCHANGED <<hitVars, glassVars, renderVars,
                 reflectVars, averageVars, cameraVars>>

\* world.hit(ray) is Some((hit, material)): material.scatter gives
\* (attenuation, child_ray) and ray_color is called on child_ray.
RayColorScatter ==
    /\ cpc = "call"
    /\ ~DepthExhausted(Top.diffusion_depth)
    /\ hit_queries' = hit_queries + 1
    /\ scatter_calls' = scatter_calls + 1
    /\ \E attenuation \in Attenuations, child_ray \in SceneRays :
        /\ stack' = Append(
               [stack EXCEPT ![Len(stack)].attenuation = Some(attenuation)],
               Frame(child_ray, ChildDepth(Top.diffusion_depth)))
        /\ path' = Append(path, attenuation)
    /\ cpc' = "call"
    /\ UNCHANGED <<depth0, ret, leaf>>
    /\ UNCHANGED <<hitVars, glassVars, renderVars,
                 reflectVars, averageVars, cameraVars>>

\* The recursive call has returned `color`: color.attenuate(&attenuation).
RayColorAttenuate ==
    /\ cpc = "return"
    /\ ret' = Some(Attenuate(ret[1], Top.attenuation[1]))
    /\ stack' = Pop(stack)
    /\ cpc' = AfterReturn
    /\ UNCHANGED <<depth0, hit_queries, scatter_calls, path, leaf>>
    /\ UNCHANGED <<hitVars, glassVars, renderVars,
                 reflectVars, averageVars, cameraVars>>

ColorNext ==
    \/ RayColorBlack
    \/ RayColorMiss
    \/ RayColorScatter
    \/ RayColorAttenuate

SpecColor == ColorInit /\ [][ColorNext]_vars


----------------------------------------------------------------------------
(* Claims about ray_color, under SpecColor and SpecColorFair               *)

\* C5: ray_color called with depth <= 0 returns black (0,0,0) for every ray
\* and every scene, without querying the scene or any material.
C5_BlackWithoutQuery ==
    [][(cpc = "call" /\ Top.diffusion_depth <= 0) =>
           /\ ret' = Some(Color(Zero, Zero, Zero))
           /\ stack' = Pop(stack)
           /\ hit_queries' = hit_queries
           /\ scatter_calls' = scatter_calls]_vars

\* ray_color(ray, world, 0) or ray_color(ray, world, -1) has returned.
C5_Witness ==
    /\ cpc = "done"
    /\ depth0 <= 0
    /\ ret = Some(Black)
    /\ hit_queries = 0
    /\ scatter_calls = 0

Max0(n) == IF n < 0 THEN 0 ELSE n

\* At most depth0 hit queries and scatter calls, at most depth0 + 1 nested
\* activations, each one called with the depth of its caller less one.
C6_Bounds ==
    cpc # "idle" =>
        /\ hit_queries <= Max0(depth0)
        /\ scatter_calls <= Max0(depth0)
        /\ Len(stack) <= Max0(depth0) + 1
        /\ stack # <<>> => stack[1].diffusion_depth = depth0
        /\ \A k \in 1..(Len(stack) - 1) :
               stack[k + 1].diffusion_depth = stack[k].diffusion_depth - 1

\* What is left to do: two steps for every bounce the innermost activation
\* may still make, one to start it, one for every activation to return.
C6_Measure ==
    Len(stack) + (IF cpc = "call" THEN 2 * Max0(Top.diffusion_depth) + 1 ELSE 0)

\* An activation that has not returned can take its next step.
C6_NotStuck ==
    /\ cpc = "call" => stack # <<>>
    /\ cpc = "return" => stack # <<>> /\ ret # None /\ Top.attenuation # None

\* C6: ray_color always terminates and its recursion is bounded by the
\* depth it is called with: at most depth hit queries and scatter calls,
\* each recursive call receiving exactly depth - 1. Every step takes the
\* measure down, so a call with depth d returns within 2 * d + 2 steps.
C6_BoundedAndTerminates ==
    /\ [](C6_Bounds /\ C6_NotStuck /\ C6_Measure >= 0)
    /\ [][C6_Measure' < C6_Measure]_vars

\* A path that used the whole depth: MaxDepth bounces.
C6_Witness ==
    /\ cpc = "done"
    /\ depth0 = MaxDepth
    /\ hit_queries = depth0
    /\ scatter_calls = depth0

RECURSIVE ChannelProduct(_, _)
ChannelProduct(attenuations, ch) ==
    IF attenuations = <<>> THEN One
    ELSE RMul(attenuations[1][ch], ChannelProduct(Tail(attenuations), ch))

\* The background gradient: white and sky-blue blended by t = (y + 1) / 2.
Gradient(r) ==
    LET t == RDiv(RAdd(r.direction[2], One), Q(2, 1))
    IN  [r |-> RSub(One, RMul(Q(1, 2), t)),
         g |-> RSub(One, RMul(Q(3, 10), t)),
         b |-> One]

\* C7: for depth > 0 ray_color returns the background gradient of the ray
\* when the scene reports no hit, and otherwise the channel-wise product of
\* the attenuation with ray_color of the scattered ray at depth - 1: the
\* result of a path is the product of the attenuations of its bounces times
\* the background of the first ray that misses, or black when the depth
\* runs out.
C7_ProductOfAttenuations ==
    cpc = "done" =>
        /\ leaf # None
        /\ leaf[1].kind = "black" <=> Len(path) = Max0(depth0)
        /\ LET end == IF leaf[1].kind = "miss"
                      THEN Gradient(leaf[1].ray)
                      ELSE Color(Zero, Zero, Zero)
           IN  /\ ret[1].r = RMul(ChannelProduct(path, "r"), end.r)
               /\ ret[1].g = RMul(ChannelProduct(path, "g"), end.g)
               /\ ret[1].b = RMul(ChannelProduct(path, "b"), end.b)

\* Two bounces, then a ray that misses.
C7_Witness ==
    /\ cpc = "done"
    /\ Len(path) = 2
    /\ leaf[1].kind = "miss"
    /\ ret[1] # Black

----------------------------------------------------------------------------
(* hittable_object.rs: Glass::scatter                                      *)

\* reflectance: Schlick's approximation
Reflectance(cosine, refraction_index) ==
    LET r0 == RDiv(RSub(One, refraction_index), RAdd(One, refraction_index))
        r1 == RMul(r0, r0)
    IN  RAdd(r1, RMul(RSub(One, r1), RPowi(RSub(One, cosine), 5)))

\* let (normal, inprod, eta_in, eta_out) = { ... }
GlassSide(g, r, h) ==
    LET normal_raw == h.surface_normal
        inprod_raw == InnerProduct(normal_raw, r.direction)
    IN  IF RLt(inprod_raw, Zero)
        THEN [normal |-> normal_raw, inprod |-> inprod_raw,
              eta_in |-> One, eta_out |-> g.eta]
        ELSE [normal |-> Scale(normal_raw, Q(-1, 1)), inprod |-> RNeg(inprod_raw),
              eta_in |-> g.eta, eta_out |-> One]

\* v' := (eta / eta') (d - (n^T d) n)
VpOut(g, r, h) ==
    LET side == GlassSide(g, r, h)
        vp_in == Subtract(r.direction, Scale(side.normal, side.inprod))
    IN  Scale(vp_in, RDiv(side.eta_in, side.eta_out))

\* c := 1 - |v'|^2
CoeffNormal(g, r, h) == RSub(One, LengthSquared(VpOut(g, r, h)))

\* A plausible slip: the ray that cannot refract passes on unchanged.
DirectionOutStraight(g, r, h, draw) ==
    LET side == GlassSide(g, r, h)
        vp_out == VpOut(g, r, h)
        coeff_normal == CoeffNormal(g, r, h)
    IN  IF RGe(coeff_normal, Zero)
        THEN IF RGt(Reflectance(RNeg(side.inprod),
                                RDiv(side.eta_in, side.eta_out)), draw)
             THEN ReflectVector(r.direction, UnitVector(side.normal))
             ELSE UnitVector(Subtract(vp_out,
                                      Scale(side.normal, RSqrt(coeff_normal))))
        ELSE r.direction

\* let direction_out = { ... }, with `draw` what random_double() returns
DirectionOut(g, r, h, draw) ==
    LET side == GlassSide(g, r, h)
        vp_out == VpOut(g, r, h)
        coeff_normal == CoeffNormal(g, r, h)
    IN  IF RGe(coeff_normal, Zero)
        THEN IF RGt(Reflectance(RNeg(side.inprod),
                                RDiv(side.eta_in, side.eta_out)), draw)
             THEN ReflectVector(r.direction, UnitVector(side.normal))
             ELSE UnitVector(Subtract(vp_out,
                                      Scale(side.normal, RSqrt(coeff_normal))))
        ELSE ReflectVector(r.direction, UnitVector(side.normal))

\* Glass::scatter
GlassScatter(g, r, h, draw) ==
    [attenuation |-> g.albedo,
     ray |-> [origin |-> RayAt(r, h.t),
              direction |-> DirectionOut(g, r, h, draw)]]

\* random_double(): a value of [-0.5, 0.5)
RandomDoubles == {Q(-1, 2), Q(-1, 4), Zero, Q(1, 4), Q(49, 100)}

\* The refractive indices: the index-matched glass of glass_scatter_test1
\* and the index 4/3.
Etas == {One, Q(4, 3)}

GlassDirections == {
    <<Q(3, 5), Q(-4, 5), Zero>>, <<Q(4, 5), Q(-3, 5), Zero>>,
    <<Zero, Q(-1, 1), Zero>>,
    <<Q(3, 5), Q(4, 5), Zero>>, <<Q(4, 5), Q(3, 5), Zero>>,
    <<Zero, One, Zero>> }

GlassNormals == { <<Zero, One, Zero>>, <<Zero, Q(-1, 1), Zero>> }

\* The square roots scatter takes are exact: c is a rational square or
\* negative.
GlassExact(g, r, h) ==
    \/ RLt(CoeffNormal(g, r, h), Zero)
    \/ IsSquare(CoeffNormal(g, r, h))

GlassInit ==
    /\ HitIdle
    /\ ColorIdle
    /\ RenderIdle
    /\ ReflectIdle
    /\ AverageIdle
    /\ CameraIdle
    /\ glass \in {[eta |-> e, albedo |-> Color(Q(8, 10), Q(8, 10), Q(8, 10))] :
                     e \in Etas}
    /\ ray_in \in {[origin |-> Int3(-3, 4, 0), direction |-> d] :
                      d \in GlassDirections}
    /\ hit \in {[t |-> t, surface_normal |-> n] :
                   t \in {Q(2, 1), Q(5, 1)}, n \in GlassNormals}
    /\ GlassExact(glass, ray_in, hit)
    /\ rnd \in RandomDoubles
    /\ scattered = None
    /\ gpc = "call"

\* material.scatter(ray_in, hit) for a Glass
Scatter ==
    /\ gpc = "call"
    /\ scattered' = GlassScatter(glass, ray_in, hit, rnd)
    /\ gpc' = "scattered"
    /\ UNCHANGED <<glass, ray_in, hit, rnd>>
    /\ UNCHANGED <<hitVars, colorVars, renderVars,
                 reflectVars, averageVars, cameraVars>>

GlassNext == Scatter

SpecGlass == GlassInit /\ [][GlassNext]_vars

----------------------------------------------------------------------------
(* Claims about Glass::scatter, under SpecGlass                            *)

\* C8: for a Glass with eta = 1, scatter never bends the ray: for every
\* incoming ray, hit normal and random draw, the direction of the scattered
\* ray equals the direction of the incoming ray.
C8_IndexMatchedNeverBends ==
    (gpc = "scattered" /\ glass.eta = One) =>
        scattered.ray.direction = ray_in.direction

\* The refracted direction d' = v' - sqrt(c) n, with index ratio 1/eta and
\* the given normal when the ray enters (normal . direction < 0), and index
\* ratio eta/1 and the flipped normal when it exits.
Refracted ==
    LET d == ray_in.direction
        enters == RLt(InnerProduct(hit.surface_normal, d), Zero)
        n == IF enters THEN hit.surface_normal
             ELSE Scale(hit.surface_normal, Q(-1, 1))
        ratio == IF enters THEN RDiv(One, glass.eta) ELSE glass.eta
        vp == Scale(Subtract(d, Scale(n, InnerProduct(n, d))), ratio)
        c == RSub(One, LengthSquared(vp))
    IN  [possible |-> RGe(c, Zero),
         direction |-> Subtract(vp, Scale(n, RSqrt(c)))]

\* C9: for a Glass with eta > 1 and an incoming ray for which refraction is
\* possible (c >= 0), scatter returns the refracted ray: origin
\* ray_in.at(hit.t) and direction d' = v' - sqrt(c) n.
C9_RefractsWhenPossible ==
    (gpc = "scattered" /\ RGt(glass.eta, One) /\ Refracted.possible) =>
        /\ scattered.ray.origin = RayAt(ray_in, hit.t)
        /\ scattered.ray.direction = Refracted.direction

\* What does hold of the draws at or above the reflectance.
GlassRefractsOnHighDraw ==
    (gpc = "scattered" /\ Refracted.possible
       /\ RLe(Reflectance(RNeg(GlassSide(glass, ray_in, hit).inprod),
                          RDiv(GlassSide(glass, ray_in, hit).eta_in,
                               GlassSide(glass, ray_in, hit).eta_out)), rnd)) =>
        /\ scattered.ray.origin = RayAt(ray_in, hit.t)
        /\ scattered.ray.direction = Refracted.direction

----------------------------------------------------------------------------
(* color.rs and main.rs: the sampler and the gamma stage                   *)

RECURSIVE SumChannel(_, _)
SumChannel(cs, ch) ==
    IF cs = <<>> THEN Zero ELSE RAdd(SumChannel(SubSeq(cs, 1, Len(cs) - 1), ch),
                                     cs[Len(cs)][ch])

\* A plausible slip: the channel sums returned undivided.
AverageUndivided(cs) ==
    [r |-> SumChannel(cs, "r"), g |-> SumChannel(cs, "g"),
     b |-> SumChannel(cs, "b")]

\* A plausible slip: the sums divided by a fixed count of two samples
\* instead of the length of the list.
AverageOfSamples(cs) ==
    [r |-> RDiv(SumChannel(cs, "r"), Q(2, 1)),
     g |-> RDiv(SumChannel(cs, "g"), Q(2, 1)),
     b |-> RDiv(SumChannel(cs, "b"), Q(2, 1))]

\* Color::average: the channel sums divided by colors.len() as f64
Average(cs) ==
    [r |-> RDiv(SumChannel(cs, "r"), Q(Len(cs), 1)),
     g |-> RDiv(SumChannel(cs, "g"), Q(Len(cs), 1)),
     b |-> RDiv(SumChannel(cs, "b"), Q(Len(cs), 1))]

\* f64::sqrt of a channel, kept exactly: the number whose square is x.
Surd(x) == [radicand |-> x]

\* filter_color: the gamma correction
FilterColor(color) ==
    [r |-> Surd(color.r), g |-> Surd(color.g), b |-> Surd(color.b)]

\* The image is image_width wide and, with aspect_ratio = 16 / 9,
\* ((image_width as f64) / aspect_ratio) as i32 high.
image_width == 4
image_height == (image_width * 9) \div 16

num_samples_per_pixel == 2

max_diffusion_depth == 1

\* A plausible slip: the range reversed with its end included.
FirstScanLineInclusive == image_height

\* (0..image_height).rev() starts at the top scan line.
FirstScanLine == image_height - 1

\* A line of standard output. A pixel's line is kept as the pixel it is
\* for; the color it holds is `written`.
HeaderLine(text) == [kind |-> text, i |-> 0, j |-> 0]
SizeLine == [kind |-> "size", i |-> image_width, j |-> image_height]
PixelLine(pi, pj) == [kind |-> "pixel", i |-> pi, j |-> pj]

RenderInit ==
    /\ HitIdle
    /\ ColorIdle
    /\ GlassIdle
    /\ ReflectIdle
    /\ AverageIdle
    /\ CameraIdle
    /\ uv = None
    /\ out = <<>>
    /\ j = 0
    /\ i = 0
    /\ sample = 0
    /\ colors = <<>>
    /\ written = None
    /\ rpc = "start"

\* println!("P3"); println!("{} {}", image_width, image_height);
\* println!("255"); and the scan-line loop is entered.
PrintHeader ==
    /\ rpc = "start"
    /\ out' = <<HeaderLine("P3"), SizeLine, HeaderLine("255")>>
    /\ j' = FirstScanLine
    /\ rpc' = "rows"
    /\ UNCHANGED <<i, sample, colors, written, uv>>
    /\ UNCHANGED <<hitVars, colorVars, glassVars,
                 reflectVars, averageVars, cameraVars>>

\* for j in (0..image_height).rev(): the next scan line
ScanLine ==
    /\ rpc = "rows"
    /\ j >= 0
    /\ i' = 0
    /\ rpc' = "pixels"
    /\ UNCHANGED <<out, j, sample, colors, written, uv>>
    /\ UNCHANGED <<hitVars, colorVars, glassVars,
                 reflectVars, averageVars, cameraVars>>

\* The scan lines are over: eprintln!("Done.")
Done ==
    /\ rpc = "rows"
    /\ j < 0
    /\ rpc' = "done"
    /\ UNCHANGED <<out, j, i, sample, colors, written, uv>>
    /\ UNCHANGED <<hitVars, colorVars, glassVars,
                 reflectVars, averageVars, cameraVars>>

\* for i in 0..image_width: the next pixel, let mut colors = vec![]
Pixel ==
    /\ rpc = "pixels"
    /\ i < image_width
    /\ colors' = <<>>
    /\ sample' = 0
    /\ written' = None
    /\ rpc' = "samples"
    /\ UNCHANGED <<out, j, i, uv>>
    /\ UNCHANGED <<hitVars, colorVars, glassVars,
                 reflectVars, averageVars, cameraVars>>

\* The pixels of the scan line are over.
EndScanLine ==
    /\ rpc = "pixels"
    /\ i >= image_width
    /\ j' = j - 1
    /\ rpc' = "rows"
    /\ UNCHANGED <<out, i, sample, colors, written, uv>>
    /\ UNCHANGED <<hitVars, colorVars, glassVars,
                 reflectVars, averageVars, cameraVars>>

\* A plausible slip: the jitter drawn from [0, 1) instead of [-0.5, 0.5).
ScreenUUnitJitter(col, jitter) ==
    RDiv(RAdd(RAdd(Q(col, 1), jitter), Half), Q(image_width - 1, 1))

\* let u = (i as f64 + random_double()) / ((image_width - 1) as f64)
ScreenU(col, jitter) == RDiv(RAdd(Q(col, 1), jitter), Q(image_width - 1, 1))

\* let v = (j as f64 + random_double()) / ((image_height - 1) as f64)
ScreenV(row, jitter) == RDiv(RAdd(Q(row, 1), jitter), Q(image_height - 1, 1))

\* One turn of the sample loop begins: the two jitters are drawn and the
\* screen coordinates computed.
Jitter ==
    /\ rpc = "samples"
    /\ sample < num_samples_per_pixel
    /\ \E ju \in RandomDoubles, jv \in RandomDoubles :
           uv' = Some(<<ScreenU(i, ju), ScreenV(j, jv)>>)
    /\ rpc' = "jittered"
    /\ UNCHANGED <<out, j, i, sample, colors, written>>
    /\ UNCHANGED <<hitVars, colorVars, glassVars,
                   reflectVars, averageVars, cameraVars>>

\* camera.get_ray(u, v) and the call of ray_color. The primary ray the
\* camera gives is one of SceneRays.
Sample ==
    /\ rpc = "jittered"
    /\ \E primary \in SceneRays : CallRayColor(primary, max_diffusion_depth)
    /\ uv' = None
    /\ rpc' = "tracing"
    /\ UNCHANGED <<out, j, i, sample, colors, written>>
    /\ UNCHANGED <<hitVars, glassVars,
                   reflectVars, averageVars, cameraVars>>

\* ray_color has returned: colors.push(color)
SampleDone ==
    /\ rpc = "tracing"
    /\ cpc = "done"
    /\ colors' = Append(colors, ret[1])
    /\ sample' = sample + 1
    /\ rpc' = "samples"
    /\ stack' = <<>>
    /\ ret' = None
    /\ cpc' = "idle"
    /\ depth0' = 0
    /\ hit_queries' = 0
    /\ scatter_calls' = 0
    /\ path' = <<>>
    /\ leaf' = None
    /\ UNCHANGED <<out, j, i, written, uv>>
    /\ UNCHANGED <<hitVars, glassVars,
                 reflectVars, averageVars, cameraVars>>

\* The samples are over: filter_color(&Color::average(&colors)).write()
WritePixel ==
    /\ rpc = "samples"
    /\ sample >= num_samples_per_pixel
    /\ written' = Some(FilterColor(Average(colors)))
    /\ out' = Append(out, PixelLine(i, j))
    /\ i' = i + 1
    /\ rpc' = "pixels"
    /\ UNCHANGED <<j, sample, colors, uv>>
    /\ UNCHANGED <<hitVars, colorVars, glassVars,
                 reflectVars, averageVars, cameraVars>>

Init == RenderInit

Next ==
    \/ PrintHeader
    \/ ScanLine
    \/ Done
    \/ Pixel
    \/ EndScanLine
    \/ Jitter
    \/ Sample
    \/ RayColorBlack
    \/ RayColorMiss
    \/ RayColorScatter
    \/ RayColorAttenuate
    \/ SampleDone
    \/ WritePixel

Spec == Init /\ [][Next]_vars

----------------------------------------------------------------------------
(* Claims about the render loop, under Spec                                *)

\* The output of a whole run: the three header lines, then the pixels in
\* row-major order from the top scan line down.
ExpectedOut ==
    <<HeaderLine("P3"), SizeLine, HeaderLine("255")>> \o
    [k \in 1..(image_width * image_height) |->
        PixelLine((k - 1) % image_width,
                  image_height - 1 - ((k - 1) \div image_width))]

IsPrefix(s, t) == Len(s) <= Len(t) /\ s = SubSeq(t, 1, Len(s))

\* C10: the render loop hands exactly one finalized color per pixel to the
\* image writer, in row-major order from the top scan line (j = height - 1)
\* down to the bottom (j = 0) and within a row from i = 0 to i = width - 1;
\* the three header lines are written before the first pixel and exactly
\* width * height pixels are written before completion.
C10_RowMajorTopDown ==
    /\ IsPrefix(out, ExpectedOut)
    /\ rpc # "start" => Len(out) >= 3
    /\ rpc \in {"pixels", "samples", "jittered", "tracing"} =>
           Len(out) = 3 + (image_height - 1 - j) * image_width + i
    /\ rpc = "done" => out = ExpectedOut
    /\ written # None => Len(out) > 3

\* The run is complete: the header and width * height pixels are out.
C10_Witness ==
    /\ rpc = "done"
    /\ Len(out) = 3 + image_width * image_height
    /\ out[4] = PixelLine(0, image_height - 1)
    /\ out[Len(out)] = PixelLine(image_width - 1, 0)

\* A channel value of [0, 1].
InUnit(x) == RLe(Zero, x) /\ RLe(x, One)

ColorInRange(c) == InUnit(c.r) /\ InUnit(c.g) /\ InUnit(c.b)

\* The square root of x lies in [0, 1] exactly when x does.
GammaInRange(c) ==
    /\ InUnit(c.r.radicand)
    /\ InUnit(c.g.radicand)
    /\ InUnit(c.b.radicand)

\* C11: every channel of every Color stays in [0, 1]: with attenuations in
\* [0, 1] and unit ray directions, what ray_color returns at any depth, the
\* sample colors of a pixel and their average, and the gamma-corrected color
\* handed to the image writer all have each channel in [0, 1].
C11_ChannelsInRange ==
    /\ \A a \in Attenuations : ColorInRange(a)
    /\ ret # None => ColorInRange(ret[1])
    /\ \A k \in 1..Len(colors) : ColorInRange(colors[k])
    /\ Len(colors) = num_samples_per_pixel => ColorInRange(Average(colors))
    /\ written # None => GammaInRange(written[1])

\* A pixel has been written whose samples differ: one ran out of depth and
\* one reached the background, and the written color is strictly inside.
C11_Witness ==
    /\ written # None
    /\ \E k \in 1..Len(colors) : colors[k] = Black
    /\ \E k \in 1..Len(colors) : colors[k] # Black
    /\ RLt(Zero, written[1].g.radicand)
    /\ RLt(written[1].g.radicand, One)

----------------------------------------------------------------------------
(* camera.rs: the axis-aligned Camera, which looks along -z with +y up     *)

\* Vec3::cross_product
CrossProduct(u, v) ==
    <<RSub(RMul(u[2], v[3]), RMul(u[3], v[2])),
      RSub(RMul(u[3], v[1]), RMul(u[1], v[3])),
      RSub(RMul(u[1], v[2]), RMul(u[2], v[1]))>>

\* Camera::new(aspect_ratio, origin, viewport_height, focal_length)
CameraNew(aspect_ratio, origin, viewport_height, focal_length) ==
    [origin |-> origin,
     viewport_width |-> RMul(viewport_height, aspect_ratio),
     viewport_height |-> viewport_height,
     focal_length |-> focal_length]

CameraHorizontal(self) == <<self.viewport_width, Zero, Zero>>

CameraVertical(self) == <<Zero, self.viewport_height, Zero>>

CameraForward(self) == <<Zero, Zero, RNeg(self.focal_length)>>

CameraLowerLeftCorner(self) ==
    PointAdd(PointAdd(PointAdd(self.origin,
                               Scale(CameraHorizontal(self), Q(-1, 2))),
                      Scale(CameraVertical(self), Q(-1, 2))),
             CameraForward(self))

\* Camera::get_ray
CameraGetRay(self, u, v) ==
    [origin |-> self.origin,
     direction |->
        UnitVector(PointSubtract(
            PointAdd(PointAdd(CameraLowerLeftCorner(self),
                              Scale(CameraHorizontal(self), u)),
                     Scale(CameraVertical(self), v)),
            self.origin))]

----------------------------------------------------------------------------
(* The Camera main constructs: Camera::new(origin, look_in, view_up,       *)
(* vertical_fov_radian, aspect_ratio). Its basis {u, v, w} is w = -look,   *)
(* u = view_up x w and v = w x u, each normalized; the viewport is         *)
(* 2 tan(fov / 2) high and aspect_ratio times as wide. The field of view   *)
(* is given by half_tan = tan(fov / 2).                                    *)

BasisW(look_in) == UnitVector(Scale(look_in, Q(-1, 1)))

BasisU(look_in, view_up) == UnitVector(CrossProduct(view_up, BasisW(look_in)))

BasisV(look_in, view_up) ==
    UnitVector(CrossProduct(BasisW(look_in), BasisU(look_in, view_up)))

ViewportHeight(half_tan) == RMul(Q(2, 1), half_tan)

ViewportWidth(half_tan, aspect_ratio) ==
    RMul(ViewportHeight(half_tan), aspect_ratio)

\* A plausible slip: the corner taken half a viewport up instead of down.
LowerLeftCornerUpper(origin, horizontal, vertical, look_in) ==
    PointAdd(PointAdd(PointAdd(origin, Scale(horizontal, Q(-1, 2))),
                      Scale(vertical, Q(1, 2))),
             look_in)

\* lower_left_corner = origin - horizontal/2 - vertical/2 + look_direction
LowerLeftCorner(origin, horizontal, vertical, look_in) ==
    PointAdd(PointAdd(PointAdd(origin, Scale(horizontal, Q(-1, 2))),
                      Scale(vertical, Q(-1, 2))),
             look_in)

\* Camera::new(origin, look_in, view_up, vertical_fov_radian, aspect_ratio)
LookAtCamera(origin, look_in, view_up, half_tan, aspect_ratio) ==
    LET horizontal == Scale(BasisU(look_in, view_up),
                            ViewportWidth(half_tan, aspect_ratio))
        vertical == Scale(BasisV(look_in, view_up), ViewportHeight(half_tan))
    IN  [origin |-> origin,
         look_in |-> look_in,
         view_up |-> view_up,
         half_tan |-> half_tan,
         aspect_ratio |-> aspect_ratio,
         horizontal |-> horizontal,
         vertical |-> vertical,
         lower_left_corner |->
             LowerLeftCorner(origin, horizontal, vertical, look_in)]

\* The point of the viewport the screen coordinates (s, t) name.
ViewportPoint(self, s, t) ==
    PointAdd(PointAdd(self.lower_left_corner, Scale(self.horizontal, s)),
             Scale(self.vertical, t))

\* get_ray(s, t)
GetRay(self, s, t) ==
    [origin |-> self.origin,
     direction |->
        UnitVector(PointSubtract(ViewportPoint(self, s, t), self.origin))]

\* The camera positions: the one of main and another.
CameraOrigins == { <<Zero, Zero, Half>>, Int3(1, 2, 3) }

\* The look directions: along -z as in main, along x, and a tilted one.
LookDirections == { Int3(0, 0, -1), Int3(1, 0, 0), <<Q(3, 5), Zero, Q(-4, 5)>> }

ViewUps == { Int3(0, 1, 0), Int3(0, 2, 0) }

HalfTans == { Q(3, 4), One, Q(2, 1) }

AspectRatios == { Half, One, Q(16, 9) }

ScreenCoordinates == { Zero, Q(1, 4), Half, Q(3, 4), One }

\* The square root get_ray takes is exact.
CameraExact(self, s, t) ==
    IsSquare(LengthSquared(PointSubtract(ViewportPoint(self, s, t),
                                         self.origin)))

CameraInit ==
    /\ HitIdle
    /\ ColorIdle
    /\ GlassIdle
    /\ RenderIdle
    /\ ReflectIdle
    /\ AverageIdle
    /\ cam \in {LookAtCamera(o, l, up, ht, a) :
                    o \in CameraOrigins, l \in LookDirections, up \in ViewUps,
                    ht \in HalfTans, a \in AspectRatios}
    /\ screen \in ScreenCoordinates \X ScreenCoordinates
    /\ CameraExact(cam, screen[1], screen[2])
    /\ cam_ray = None
    /\ kpc = "call"

\* camera.get_ray(s, t)
CameraRay ==
    /\ kpc = "call"
    /\ cam_ray' = Some(GetRay(cam, screen[1], screen[2]))
    /\ kpc' = "returned"
    /\ UNCHANGED <<cam, screen>>
    /\ UNCHANGED <<hitVars, colorVars, glassVars, renderVars,
                   reflectVars, averageVars>>

CameraNext == CameraRay

SpecCamera == CameraInit /\ [][CameraNext]_vars

----------------------------------------------------------------------------
(* Claims about the Camera, under SpecCamera                               *)

AxisAlignedAgrees ==
    (kpc = "returned" /\ cam.look_in = Int3(0, 0, -1)
       /\ cam.view_up = Int3(0, 1, 0)) =>
        cam_ray[1] = CameraGetRay(CameraNew(cam.aspect_ratio, cam.origin,
                                           ViewportHeight(cam.half_tan), One),
                                  screen[1], screen[2])

----------------------------------------------------------------------------
(* color.rs: Color::average on its own                                     *)

MaxColors == 3

\* The colors averaged: black, white, the sky blue and two others.
SampleColors ==
    { Black, White, Sky, Color(Q(1, 10), Q(1, 5), Q(3, 10)),
      Color(Q(1, 3), Q(2, 7), Q(9, 10)) }

AverageInit ==
    /\ HitIdle
    /\ ColorIdle
    /\ GlassIdle
    /\ RenderIdle
    /\ ReflectIdle
    /\ CameraIdle
    /\ avg_colors \in UNION {[1..n -> SampleColors] : n \in 0..MaxColors}
    /\ averaged = None
    /\ apc = "call"

\* Color::average(&colors)
AverageCall ==
    /\ apc = "call"
    /\ averaged' = Some(Average(avg_colors))
    /\ apc' = "averaged"
    /\ UNCHANGED avg_colors
    /\ UNCHANGED <<hitVars, colorVars, glassVars, renderVars,
                   reflectVars, cameraVars>>

AverageNext == AverageCall

SpecAverage == AverageInit /\ [][AverageNext]_vars

----------------------------------------------------------------------------
(* Claims about Color::average, under SpecAverage                          *)

Identical(cs) == \A k \in 1..Len(cs) : cs[k] = cs[1]

\* C13: Color::average of a list of N >= 1 identical colors returns that
\* color unchanged.
C13_AverageOfIdentical ==
    (apc = "averaged" /\ Len(avg_colors) >= 1 /\ Identical(avg_colors)) =>
        averaged[1] = avg_colors[1]

\* Three copies of a color with three different channels were averaged.
C13_Witness ==
    /\ apc = "averaged"
    /\ Len(avg_colors) >= 3
    /\ Identical(avg_colors)
    /\ avg_colors[1] = Color(Q(1, 3), Q(2, 7), Q(9, 10))
    /\ averaged[1] = Color(Q(1, 3), Q(2, 7), Q(9, 10))

\* The average of no colors is 0 / 0: every channel is non-finite.
AverageOfNone ==
    (apc = "averaged" /\ avg_colors = <<>>) => ~IsFinite(averaged[1].r)

----------------------------------------------------------------------------
(* geometry.rs: reflect_vector on its own                                  *)

\* Unit vectors with rational components.
UnitDirections ==
    { Int3(1, 0, 0), Int3(0, 1, 0), Int3(0, 0, -1), Int3(0, -1, 0),
      <<Q(3, 5), Q(4, 5), Zero>>, <<Q(-4, 5), Zero, Q(3, 5)>>,
      <<Zero, Q(-3, 5), Q(-4, 5)>>,
      <<Q(2, 3), Q(1, 3), Q(2, 3)>>, <<Q(2, 3), Q(2, 3), Q(-1, 3)>>,
      <<Q(-1, 3), Q(2, 3), Q(2, 3)>>, <<Q(6, 7), Q(2, 7), Q(3, 7)>> }

ReflectInit ==
    /\ HitIdle
    /\ ColorIdle
    /\ GlassIdle
    /\ RenderIdle
    /\ AverageIdle
    /\ CameraIdle
    /\ refl_in \in UnitDirections
    /\ refl_normal \in UnitDirections
    /\ reflected = None
    /\ fpc = "call"

\* reflect_vector(&u_in, &u_normal)
ReflectOnce ==
    /\ fpc = "call"
    /\ reflected' = Some(ReflectVector(refl_in, refl_normal))
    /\ fpc' = "once"
    /\ UNCHANGED <<refl_in, refl_normal>>
    /\ UNCHANGED <<hitVars, colorVars, glassVars, renderVars,
                   averageVars, cameraVars>>

\* reflect_vector applied to its own result, with the same normal
ReflectAgain ==
    /\ fpc = "once"
    /\ reflected' = Some(ReflectVector(reflected[1], refl_normal))
    /\ fpc' = "twice"
    /\ UNCHANGED <<refl_in, refl_normal>>
    /\ UNCHANGED <<hitVars, colorVars, glassVars, renderVars,
                   averageVars, cameraVars>>

ReflectNext == ReflectOnce \/ ReflectAgain

SpecReflect == ReflectInit /\ [][ReflectNext]_vars

----------------------------------------------------------------------------
(* Claims about reflect_vector, under SpecReflect                          *)

\* d - 2 (d . n) n
Mirror(d, n) ==
    Subtract(d, Scale(n, RMul(Q(2, 1), InnerProduct(d, n))))

\* C14: reflect(d, n) = d - 2 (d . n) n preserves the length of d for every
\* unit normal n, and reflecting twice with the same normal returns the
\* original direction: reflect(reflect(d, n), n) = d.
C14_ReflectInvolution ==
    /\ fpc = "once" =>
        /\ reflected[1] = Mirror(refl_in, refl_normal)
        /\ LengthSquared(reflected[1]) = LengthSquared(refl_in)
    /\ fpc = "twice" => reflected[1] = refl_in

\* A direction was reflected twice at a normal it is neither parallel nor
\* perpendicular to.
C14_Witness ==
    /\ fpc = "twice"
    /\ refl_in = <<Q(2, 3), Q(1, 3), Q(2, 3)>>
    /\ refl_normal = <<Q(3, 5), Q(4, 5), Zero>>
    /\ reflected[1] = refl_in

\* The case of reflect_vector_tests, with a rational unit vector: the
\* normal (0, -1, 0) flips the y component.
ReflectFlipsY ==
    (fpc = "once" /\ refl_normal = Int3(0, -1, 0)) =>
        reflected[1] = <<refl_in[1], RNeg(refl_in[2]), refl_in[3]>>

----------------------------------------------------------------------------
(* Total internal reflection in Glass::scatter, under SpecGlass            *)

\* C15: when refraction is geometrically impossible for a Glass
\* (c = 1 - |v'|^2 < 0, total internal reflection), scatter returns the
\* reflected direction reflect(d, n) for every random draw, and in every
\* case the scattered direction is one of exactly two values, the
\* reflection or the refraction d' = v' - sqrt(c) n.
C15_ReflectOrRefract ==
    gpc = "scattered" =>
        LET reflection == Mirror(ray_in.direction, hit.surface_normal)
        IN  /\ ~Refracted.possible => scattered.ray.direction = reflection
            /\ \/ scattered.ray.direction = reflection
               \/ /\ Refracted.possible
                  /\ scattered.ray.direction = Refracted.direction

\* A ray leaving the glass too flatly to refract was reflected although
\* the draw was the highest one.
C15_Witness ==
    /\ gpc = "scattered"
    /\ ~Refracted.possible
    /\ rnd = Q(49, 100)
    /\ scattered.ray.direction = Mirror(ray_in.direction, hit.surface_normal)
    /\ scattered.ray.direction # ray_in.direction

----------------------------------------------------------------------------
(* Claims about the screen coordinates of the samples, under Spec          *)

\* C16: for every pixel (i, j) with 0 <= i < width and 0 <= j < height and
\* every jitter drawn from [-0.5, 0.5), the screen coordinates
\* u = (i + jitter) / (width - 1) and v = (j + jitter) / (height - 1) that
\* the sample loop passes to Camera.get_ray lie in [0, 1].
C16_ScreenCoordinatesInUnit ==
    uv # None => InUnit(uv[1][1]) /\ InUnit(uv[1][2])

\* Half the distance between two neighbouring columns, and rows.
HalfStepU == RDiv(Half, Q(image_width - 1, 1))
HalfStepV == RDiv(Half, Q(image_height - 1, 1))

\* C16, amended: u lies in [-0.5 / (width - 1), 1 + 0.5 / (width - 1)],
\* within half a column step of i / (width - 1), and v lies in
\* [-0.5 / (height - 1), 1 + 0.5 / (height - 1)], within half a row step of
\* j / (height - 1); the pixel (i, j) is inside the image.
C16_ScreenCoordinatesWithinHalfStep ==
    uv # None =>
        /\ 0 <= i /\ i < image_width /\ 0 <= j /\ j < image_height
        /\ RLe(RNeg(HalfStepU), uv[1][1])
        /\ RLe(uv[1][1], RAdd(One, HalfStepU))
        /\ RLe(RNeg(HalfStepV), uv[1][2])
        /\ RLe(uv[1][2], RAdd(One, HalfStepV))
        /\ RLe(RSub(RDiv(Q(i, 1), Q(image_width - 1, 1)), HalfStepU), uv[1][1])
        /\ RLe(uv[1][1], RAdd(RDiv(Q(i, 1), Q(image_width - 1, 1)), HalfStepU))
        /\ RLe(RSub(RDiv(Q(j, 1), Q(image_height - 1, 1)), HalfStepV), uv[1][2])
        /\ RLe(uv[1][2], RAdd(RDiv(Q(j, 1), Q(image_height - 1, 1)), HalfStepV))

\* A sample of the leftmost column of the top scan line whose u is below 0
\* and whose v is above 1.
C16_Witness ==
    /\ uv # None
    /\ i = 0
    /\ j = image_height - 1
    /\ RLt(uv[1][1], Zero)
    /\ RGt(uv[1][2], One)

====
